---------------------------- MODULE Spec2Model ----------------------------
(***************************************************************************)
(* Model of project.py (weather_app): the console program that prints a    *)
(* city menu, reads a selection, issues one HTTP GET to the forecast API   *)
(* and prints a summary line and a table of hourly readings.               *)
(*                                                                         *)
(* Conventions of the model                                                *)
(*  - Python str values are TLA+ strings; the Cyrillic literals of the     *)
(*    source are written in Latin transliteration, "°C" as "degC".         *)
(*  - An input line is a sequence of one-character strings, so that int()  *)
(*    is modelled by what it parses.                                       *)
(*  - A float of the registry is written in micro-degrees.                 *)
(*  - A JSON number is [float |-> BOOLEAN, scaled |-> Int]: the integer    *)
(*    `scaled` when float is FALSE, the float scaled/10 when it is TRUE.   *)
(*  - A dict is a record; a missing key is a missing field.                *)
(***************************************************************************)
EXTENDS Integers, Sequences, FiniteSets, TLC

VARIABLES
    pc,                         \* position of main()
    consumed,                   \* lines input() has returned, oldest first
    stdout,                     \* what print() has written, oldest first
    requests,                   \* the HTTP GETs issued (their query parameters)
    response,                   \* get_weather_data's local, Unbound before a response
    selection,                  \* main's local `selection`
    selected_city_coordinates,  \* main's local, Unbound before the loop breaks
    weather_data,               \* main's local, Unbound before the fetch returns
    columns,                    \* what each hourly extractor has returned
    table,                      \* the PrettyTable under construction
    events,                     \* the pipeline events of the run, in order
    exception,                  \* the uncaught exception that ended the run, or "none"
    process                     \* whether the process has exited, and its exit status

vars == <<pc, consumed, stdout, requests, response, selection,
          selected_city_coordinates, weather_data, columns, table, events,
          exception, process>>

-----------------------------------------------------------------------------
(* Bounds of the model *)

\* the input stream holds at most this many lines before end of file
MaxInputs == 3
\* a forecast document holds at most this many hourly samples
MaxHours == 2

-----------------------------------------------------------------------------
(* Values standing for "not assigned yet" *)

Unbound == [unbound |-> TRUE]

-----------------------------------------------------------------------------
(* Static data: Coordinates and CITIES *)

Coordinates(latitude, longitude) == [latitude |-> latitude, longitude |-> longitude]

\* The dict keeps insertion order; the third entry passes its keyword
\* arguments in the other order, which the keywords (not the order) decide.
CITIES ==
    << [name |-> "Dubna",           coordinates |-> Coordinates(56736343, 37162177)],
       [name |-> "Moskva",          coordinates |-> Coordinates(55755864, 37617698)],
       [name |-> "Kazan",           coordinates |-> Coordinates(49106414, 55796127)],
       [name |-> "Sankt-Peterburg", coordinates |-> Coordinates(59938784, 30314997)] >>

\* list(CITIES.keys())
CitiesKeys == [i \in 1..Len(CITIES) |-> CITIES[i].name]

\* CITIES[name]
CitiesLookup(name) ==
    CITIES[CHOOSE i \in 1..Len(CITIES) : CITIES[i].name = name].coordinates

-----------------------------------------------------------------------------
(* Python built-ins the program relies on *)

Digits == {"0", "1", "2", "3", "4", "5", "6", "7", "8", "9"}

DigitVal(c) == CHOOSE d \in 0..9 : ToString(d) = c

RECURSIVE LStrip(_)
LStrip(s) == IF s # <<>> /\ Head(s) = " " THEN LStrip(Tail(s)) ELSE s

RECURSIVE RStrip(_)
RStrip(s) ==
    IF s # <<>> /\ s[Len(s)] = " " THEN RStrip(SubSeq(s, 1, Len(s) - 1)) ELSE s

RECURSIVE DigitsValue(_)
DigitsValue(s) ==
    IF s = <<>> THEN 0
    ELSE 10 * DigitsValue(SubSeq(s, 1, Len(s) - 1)) + DigitVal(s[Len(s)])

\* int(line): surrounding blanks are stripped, one sign is allowed, the rest
\* must be a non-empty run of decimal digits; anything else is a ValueError.
PyInt(line) ==
    LET t      == RStrip(LStrip(line))
        signed == t # <<>> /\ Head(t) \in {"+", "-"}
        body   == IF signed THEN Tail(t) ELSE t
        ok     == body # <<>> /\ \A i \in 1..Len(body) : body[i] \in Digits
    IN  IF ok
        THEN [ok |-> TRUE,
              value |-> (IF signed /\ Head(t) = "-" THEN -1 ELSE 1) * DigitsValue(body)]
        ELSE [ok |-> FALSE, value |-> 0]

\* seq[index] for a Python list of length n: a negative index counts from
\* the end; outside -n..n-1 it is an IndexError.
PyIndexInRange(index, n) == -n <= index /\ index < n

\* the 1-based position of seq[index]
PyIndexPosition(index, n) == IF index < 0 THEN index + n + 1 ELSE index + 1

\* str(v) of a JSON number
PyStr(v) ==
    IF v.float
    THEN LET a == IF v.scaled < 0 THEN -v.scaled ELSE v.scaled
         IN  (IF v.scaled < 0 THEN "-" ELSE "") \o ToString(a \div 10)
                 \o "." \o ToString(a % 10)
    ELSE ToString(v.scaled)

-----------------------------------------------------------------------------
(* unix_time_to_human_readable *)

\* datetime.fromtimestamp uses the zone of the machine: its UTC offset, in
\* seconds.
LocalUtcOffset == 10800

Pad2(n) == IF n < 10 THEN "0" \o ToString(n) ELSE ToString(n)

\* the civil date of the day `days` days after 1970-01-01
CivilFromDays(days) ==
    LET z   == days + 719468
        era == z \div 146097
        doe == z - era * 146097
        yoe == (doe - doe \div 1460 + doe \div 36524 - doe \div 146096) \div 365
        doy == doe - (365 * yoe + yoe \div 4 - yoe \div 100)
        mp  == (5 * doy + 2) \div 153
        d   == doy - (153 * mp + 2) \div 5 + 1
        m   == IF mp < 10 THEN mp + 3 ELSE mp - 9
        y   == yoe + era * 400 + (IF m <= 2 THEN 1 ELSE 0)
    IN  [day |-> d, month |-> m, year |-> y]

unix_time_to_human_readable(unix_timestamp, time_only) ==
    LET local == unix_timestamp + LocalUtcOffset
        sod   == local % 86400
        date  == CivilFromDays(local \div 86400)
        hm    == Pad2(sod \div 3600) \o ":" \o Pad2((sod % 3600) \div 60)
    IN  IF time_only
        THEN hm
        ELSE Pad2(date.day) \o "." \o Pad2(date.month) \o "." \o ToString(date.year)
                 \o " " \o hm \o ":" \o Pad2(sod % 60)

-----------------------------------------------------------------------------
(* Results of calls that may raise *)

Return(v) == [raised |-> "none", value |-> v]
Raise(exc) == [raised |-> exc]

-----------------------------------------------------------------------------
(* The forecast documents the API may answer with *)

DropKey(d, k) == [x \in (DOMAIN d) \ {k} |-> d[x]]

DropPath(d, path) ==
    IF Len(path) = 1
    THEN DropKey(d, path[1])
    ELSE [d EXCEPT ![path[1]] = DropKey(@, path[2])]

Shorten(d, k) == [d EXCEPT !.hourly[k] = SubSeq(@, 1, Len(@) - 1)]

HourlyFields ==
    {"time", "temperature_2m", "relative_humidity_2m", "apparent_temperature"}

UnitFields == HourlyFields \ {"time"}

KeyPaths ==
    {<<"current">>, <<"current", "is_day">>, <<"current", "time">>,
     <<"timezone_abbreviation">>, <<"hourly">>, <<"hourly_units">>}
    \cup {<<"hourly", k>> : k \in HourlyFields}
    \cup {<<"hourly_units", k>> : k \in UnitFields}

\* Two families of sample readings: a day in the Moscow zone starting at
\* the epoch, and a night whose samples cross midnight of 5 November 2024.
Variants ==
    { [is_day |-> 1, base |-> 0, tz |-> "MSK",
       units |-> [temperature_2m |-> "degC", relative_humidity_2m |-> "%",
                  apparent_temperature |-> "degC"]],
      [is_day |-> 0, base |-> 1730750400, tz |-> "GMT+3",
       units |-> [temperature_2m |-> "degF", relative_humidity_2m |-> "pct",
                  apparent_temperature |-> "K"]] }

SampleDocument(n, v) ==
    [current |-> [is_day |-> v.is_day, time |-> v.base + 59],
     timezone_abbreviation |-> v.tz,
     hourly |->
        [time                 |-> [i \in 1..n |-> v.base + 3600 * (i - 1)],
         temperature_2m       |-> [i \in 1..n |->
                                     [float |-> TRUE, scaled |-> 100 - 125 * (i - 1)]],
         relative_humidity_2m |-> [i \in 1..n |->
                                     [float |-> FALSE, scaled |-> 50 + 5 * (i - 1)]],
         apparent_temperature |-> [i \in 1..n |->
                                     [float |-> TRUE, scaled |-> 5 - 125 * (i - 1)]]],
     hourly_units |-> v.units]

\* Every well-formed sample document, and the day documents with one key
\* removed or one hourly array a value short.
Documents ==
    LET good == {SampleDocument(n, v) : n \in 0..MaxHours, v \in Variants}
        day  == {g \in good : g.current.is_day = 1}
    IN  good
        \cup {DropPath(d, p) : d \in day, p \in KeyPaths}
        \cup {Shorten(d, k) : d \in {g \in day : Len(g.hourly.time) > 0},
                              k \in HourlyFields}

HasPath(d, path) ==
    /\ path[1] \in DOMAIN d
    /\ Len(path) > 1 => path[2] \in DOMAIN d[path[1]]

\* the document shape of the API contract: every field present, the hourly
\* arrays index-aligned
WellFormed(d) ==
    /\ \A p \in KeyPaths : HasPath(d, p)
    /\ \A k \in HourlyFields : Len(d.hourly[k]) = Len(d.hourly.time)

-----------------------------------------------------------------------------
(* The extractors *)

get_current_date_time(data) ==
    IF \/ ~HasPath(data, <<"current", "is_day">>)
       \/ ~HasPath(data, <<"current", "time">>)
       \/ ~HasPath(data, <<"timezone_abbreviation">>)
    THEN Raise("KeyError")
    ELSE Return("(" \o (IF data.current.is_day # 0 THEN "Den" ELSE "Noch") \o ") "
                    \o unix_time_to_human_readable(data.current.time, FALSE)
                    \o " " \o data.timezone_abbreviation)

get_horly_time(data) ==
    IF ~HasPath(data, <<"hourly", "time">>)
    THEN Raise("KeyError")
    ELSE Return([i \in 1..Len(data.hourly.time) |->
                    unix_time_to_human_readable(data.hourly.time[i], TRUE)])

\* The body the three value extractors share: the list comprehension looks
\* its iterable up first and the unit once per element, so an empty array
\* never looks the unit up.
FormatHourly(data, field, unit) ==
    IF ~HasPath(data, <<"hourly", field>>)
    THEN Raise("KeyError")
    ELSE LET values == data.hourly[field]
         IN  IF Len(values) = 0
             THEN Return(<<>>)
             ELSE IF ~HasPath(data, <<"hourly_units", unit>>)
             THEN Raise("KeyError")
             ELSE Return([i \in 1..Len(values) |->
                             PyStr(values[i]) \o " " \o data.hourly_units[unit]])

get_hourly_temperature_2m(data) ==
    FormatHourly(data, "temperature_2m", "temperature_2m")

\* the humidity extractor with the unit key of the function it was copied from
get_hourly_relative_humidity_2m_CopiedUnit(data) ==
    FormatHourly(data, "relative_humidity_2m", "temperature_2m")

get_hourly_relative_humidity_2m(data) ==
    FormatHourly(data, "relative_humidity_2m", "relative_humidity_2m")

get_hourly_apparent_temperature(data) ==
    FormatHourly(data, "apparent_temperature", "apparent_temperature")

-----------------------------------------------------------------------------
(* PrettyTable, as far as main uses it.  The class comes from the           *)
(* prettytable package, which the program imports (line 9); add_column is   *)
(* modelled by that package's behaviour at the four call sites of main.     *)

PrettyTable == [field_names |-> <<>>, rows |-> <<>>]

\* add_column accepts a column when the table has no rows yet or as many
\* rows as the column has cells, and raises ValueError otherwise.
add_column(t, fieldname, column) ==
    IF Len(t.rows) = 0 \/ Len(t.rows) = Len(column)
    THEN Return([field_names |-> Append(t.field_names, fieldname),
                 rows |-> [i \in 1..Len(column) |->
                             IF Len(t.rows) = 0
                             THEN <<column[i]>>
                             ELSE Append(t.rows[i], column[i])]])
    ELSE Raise("ValueError")

-----------------------------------------------------------------------------
(* Standard input, standard output and the network *)

\* the lines the user may type
InputLines ==
    { <<"a", "b", "c">>, <<>>, <<"9", "9">>, <<"2">>, <<"0">>, <<"4">>, <<"5">>,
      <<"-", "3">>, <<"-", "4">>, <<" ", "+", "1">> }

\* the statuses the server may answer with, besides 200
FailureStatuses == {204, 404, 503}

TextLine(text) == [kind |-> "text", text |-> text]

TableBlock(t) == [kind |-> "table", field_names |-> t.field_names, rows |-> t.rows]

\* print("Vyberite gorod:") and one numbered line per key of CITIES
Menu ==
    <<TextLine("Vyberite gorod:")>>
    \o [i \in 1..Len(CitiesKeys) |-> TextLine(ToString((i - 1) + 1) \o ") " \o CitiesKeys[i])]

InvalidChoice == TextLine("Nevernyj vybor...")

StatusMessage(code) ==
    TextLine("Zapros ne vypolnen s kodom sostoyaniya " \o ToString(code) \o "...")

\* URL with the two format arguments exchanged
URL_Swapped(coordinates) ==
    [latitude |-> coordinates.longitude, longitude |-> coordinates.latitude]

\* URL.format(latitude=..., longitude=...): the two parameters that vary
URL(coordinates) ==
    [latitude |-> coordinates.latitude, longitude |-> coordinates.longitude]

-----------------------------------------------------------------------------
(* The run *)

Init ==
    /\ pc = "Start"
    /\ consumed = <<>>
    /\ stdout = <<>>
    /\ requests = <<>>
    /\ response = Unbound
    /\ selection = Unbound
    /\ selected_city_coordinates = Unbound
    /\ weather_data = Unbound
    /\ columns = <<>>
    /\ table = Unbound
    /\ events = <<>>
    /\ exception = "none"
    /\ process = [exited |-> FALSE]

\* an exception nobody catches: the interpreter prints the traceback to
\* standard error and exits with status 1
Uncaught(exc) ==
    /\ pc' = "Crashed"
    /\ exception' = exc
    /\ process' = [exited |-> TRUE, status |-> 1]

\* lines 125-127
PrintMenu ==
    /\ pc = "Start"
    /\ stdout' = stdout \o Menu
    /\ events' = Append(events, "print_menu")
    /\ pc' = "AwaitingSelection"
    /\ UNCHANGED <<consumed, requests, response, selection,
                   selected_city_coordinates, weather_data, columns, table,
                   exception, process>>

\* lines 134-136 with `continue` going back to the menu of lines 125-127
ExceptIndexError_MenuAgain ==
    /\ stdout' = Append(stdout, InvalidChoice) \o Menu
    /\ pc' = "AwaitingSelection"
    /\ UNCHANGED <<selected_city_coordinates, exception, process>>

\* lines 134-136: the handler of IndexError
ExceptIndexError ==
    /\ stdout' = Append(stdout, InvalidChoice)
    /\ pc' = "AwaitingSelection"
    /\ UNCHANGED <<selected_city_coordinates, exception, process>>

\* line 132, once int() has returned
Resolve(value) ==
    LET keys == CitiesKeys
    IN  IF PyIndexInRange(value - 1, Len(keys))
        THEN /\ selected_city_coordinates' =
                    CitiesLookup(keys[PyIndexPosition(value - 1, Len(keys))])
             /\ pc' = "Resolved"
             /\ UNCHANGED <<stdout, exception, process>>
        ELSE ExceptIndexError

\* lines 129-136, one turn of the loop on a line of input
ReadSelection ==
    /\ pc = "AwaitingSelection"
    /\ Len(consumed) < MaxInputs
    /\ \E line \in InputLines :
          /\ consumed' = Append(consumed, line)
          /\ events' = Append(events, "input")
          /\ LET parsed == PyInt(line)
             IN  IF parsed.ok
                 THEN /\ selection' = [value |-> parsed.value]
                      /\ Resolve(parsed.value)
                 ELSE /\ Uncaught("ValueError")
                      /\ UNCHANGED <<selection, selected_city_coordinates, stdout>>
    /\ UNCHANGED <<requests, response, weather_data, columns, table>>

\* line 131 at the end of the input stream
ReadEndOfFile ==
    /\ pc = "AwaitingSelection"
    /\ events' = Append(events, "input")
    /\ Uncaught("EOFError")
    /\ UNCHANGED <<consumed, stdout, requests, response, selection,
                   selected_city_coordinates, weather_data, columns, table>>

\* lines 37-38
Get ==
    /\ pc = "Resolved"
    /\ requests' = Append(requests, URL(selected_city_coordinates))

\* lines 38, 40-41 and 140: the response is 200 and its body a document
FetchOk ==
    /\ Get
    /\ \E doc \in Documents : weather_data' = doc
    /\ response' = [status_code |-> 200]
    /\ events' = Append(events, "http_get")
    /\ table' = PrettyTable
    /\ pc' = "ColumnTime"
    /\ UNCHANGED <<consumed, stdout, selection, selected_city_coordinates,
                   columns, exception, process>>

\* lines 42-43 without the exit() of line 44: get_weather_data returns
\* None and main goes on to build the table
ExitOnStatus_NoExit(code) ==
    /\ stdout' = Append(stdout, StatusMessage(code))
    /\ events' = events \o <<"http_get", "print_status">>
    /\ pc' = "ColumnTime"
    /\ table' = PrettyTable
    /\ UNCHANGED <<weather_data, columns, exception, process>>

\* lines 42-44: exit() without an argument ends the process with status 0
ExitOnStatus(code) ==
    /\ stdout' = Append(stdout, StatusMessage(code))
    /\ events' = events \o <<"http_get", "print_status">>
    /\ pc' = "FetchFailed"
    /\ process' = [exited |-> TRUE, status |-> 0]
    /\ UNCHANGED <<weather_data, table, columns, exception>>

\* lines 38, 40, 42-44: the response is not 200
FetchFailed ==
    /\ Get
    /\ \E code \in FailureStatuses :
          /\ response' = [status_code |-> code]
          /\ ExitOnStatus(code)
    /\ UNCHANGED <<consumed, selection, selected_city_coordinates>>

\* lines 38, 40-41: the response is 200 and response.json() raises
FetchNotJson ==
    /\ Get
    /\ response' = [status_code |-> 200]
    /\ events' = Append(events, "http_get")
    /\ Uncaught("JSONDecodeError")
    /\ UNCHANGED <<consumed, stdout, selection, selected_city_coordinates,
                   weather_data, columns, table>>

\* line 38: requests.get raises (no connection, or the timeout of 60 s)
FetchRaises ==
    /\ Get
    /\ events' = Append(events, "http_get")
    /\ Uncaught("RequestException")
    /\ UNCHANGED <<consumed, stdout, response, selection,
                   selected_city_coordinates, weather_data, columns, table>>

\* one table.add_column(fieldname=..., column=<extractor>(data=weather_data))
AddColumn(here, next, fieldname, extractor, result) ==
    /\ pc = here
    /\ events' = Append(events, extractor)
    /\ IF result.raised # "none"
       THEN /\ Uncaught(result.raised)
            /\ UNCHANGED <<columns, table>>
       ELSE /\ columns' = Append(columns, [extractor |-> extractor,
                                            column |-> result.value])
            /\ LET added == add_column(table, fieldname, result.value)
               IN  IF added.raised # "none"
                   THEN /\ Uncaught(added.raised)
                        /\ UNCHANGED table
                   ELSE /\ table' = added.value
                        /\ pc' = next
                        /\ UNCHANGED <<exception, process>>
    /\ UNCHANGED <<consumed, stdout, requests, response, selection,
                   selected_city_coordinates, weather_data>>

\* lines 142-145
ColumnTime ==
    AddColumn("ColumnTime", "ColumnTemperature", "Vremya",
              "get_horly_time", get_horly_time(weather_data))

\* lines 146-149 with the extractor of lines 154-157
ColumnTemperature_WrongExtractor ==
    AddColumn("ColumnTemperature", "ColumnHumidity", "Temperatura",
              "get_hourly_temperature_2m", get_hourly_apparent_temperature(weather_data))

\* lines 146-149
ColumnTemperature ==
    AddColumn("ColumnTemperature", "ColumnHumidity", "Temperatura",
              "get_hourly_temperature_2m", get_hourly_temperature_2m(weather_data))

\* lines 150-153
ColumnHumidity ==
    AddColumn("ColumnHumidity", "ColumnApparent", "Otnositelnaya vlazhnost",
              "get_hourly_relative_humidity_2m",
              get_hourly_relative_humidity_2m(weather_data))

\* lines 154-157
ColumnApparent ==
    AddColumn("ColumnApparent", "PrintBlank", "Kazhushchayasya temperatura",
              "get_hourly_apparent_temperature",
              get_hourly_apparent_temperature(weather_data))

\* line 159
PrintBlank ==
    /\ pc = "PrintBlank"
    /\ stdout' = Append(stdout, TextLine(""))
    /\ events' = Append(events, "print_blank")
    /\ pc' = "PrintSummary"
    /\ UNCHANGED <<consumed, requests, response, selection,
                   selected_city_coordinates, weather_data, columns, table,
                   exception, process>>

\* line 160
PrintSummary ==
    /\ pc = "PrintSummary"
    /\ LET summary == get_current_date_time(weather_data)
       IN  IF summary.raised # "none"
           THEN /\ events' = Append(events, "get_current_date_time")
                /\ Uncaught(summary.raised)
                /\ UNCHANGED stdout
           ELSE /\ events' = events \o <<"get_current_date_time", "print_summary">>
                /\ stdout' = Append(stdout, TextLine(summary.value))
                /\ pc' = "PrintTable"
                /\ UNCHANGED <<exception, process>>
    /\ UNCHANGED <<consumed, requests, response, selection,
                   selected_city_coordinates, weather_data, columns, table>>

\* line 161, and the return of main: the process exits with status 0
PrintTable ==
    /\ pc = "PrintTable"
    /\ stdout' = Append(stdout, TableBlock(table))
    /\ events' = Append(events, "print_table")
    /\ pc' = "Done"
    /\ process' = [exited |-> TRUE, status |-> 0]
    /\ UNCHANGED <<consumed, requests, response, selection,
                   selected_city_coordinates, weather_data, columns, table,
                   exception>>

Next ==
    \/ PrintMenu
    \/ ReadSelection
    \/ ReadEndOfFile
    \/ FetchOk
    \/ FetchFailed
    \/ FetchNotJson
    \/ FetchRaises
    \/ ColumnTime
    \/ ColumnTemperature
    \/ ColumnHumidity
    \/ ColumnApparent
    \/ PrintBlank
    \/ PrintSummary
    \/ PrintTable

Spec == Init /\ [][Next]_vars

\* The interpreter runs main to its end: no step that can be taken is
\* postponed for ever.
FairSpec == Spec /\ WF_vars(Next)

-----------------------------------------------------------------------------
(* Vocabulary of the properties *)

Last(s) == s[Len(s)]

Count == Len(CITIES)

Accepted == selected_city_coordinates # Unbound

Responded == response # Unbound

Fetched == weather_data # Unbound

Exited == process.exited

\* the lines of input that parsed as an integer outside -Count+1 .. Count
Rejected ==
    {k \in 1..Len(consumed) :
        /\ PyInt(consumed[k]).ok
        /\ ~PyIndexInRange(PyInt(consumed[k]).value - 1, Count)}

\* what was printed after the menu
AfterMenu == SubSeq(stdout, Len(Menu) + 1, Len(stdout))

\* what was printed after the menu and the error lines of the selection loop
AfterSelection == SubSeq(stdout, Len(Menu) + Cardinality(Rejected) + 1, Len(stdout))

OnlyInvalidChoices(lines) == \A k \in 1..Len(lines) : lines[k] = InvalidChoice

Extractors ==
    {"get_horly_time", "get_hourly_temperature_2m", "get_hourly_relative_humidity_2m",
     "get_hourly_apparent_temperature", "get_current_date_time"}

RenderEvents == {"print_blank", "print_summary", "print_table"}

-----------------------------------------------------------------------------
(* C1 *)

\* C1: after a line that parses as the integer i, the selection is accepted
\* with the coordinates of the i-th city when 1 <= i <= Count, and is
\* rejected when i < 1 or i > Count: no coordinates are resolved, every
\* line read so far has its error line, and the loop waits for the next line
\* (or has met the end of the input).
C1_SelectionRange ==
    (consumed # <<>> /\ PyInt(Last(consumed)).ok) =>
        LET i == PyInt(Last(consumed)).value
        IN  /\ (1 <= i /\ i <= Count) =>
                  /\ pc # "AwaitingSelection"
                  /\ selected_city_coordinates = CITIES[i].coordinates
            /\ (i < 1 \/ i > Count) =>
                  /\ ~Accepted
                  /\ requests = <<>>
                  /\ AfterMenu = [k \in 1..Len(consumed) |-> InvalidChoice]
                  /\ \/ pc = "AwaitingSelection"
                     \/ pc = "Crashed" /\ exception = "EOFError"

-----------------------------------------------------------------------------
(* C2 *)

\* C2: a line that is not an integer is recovered in the loop: the program
\* does not crash on it and waits for another line; and once "abc", "99",
\* "2" have been read, two error lines have been printed and the second
\* city is selected.
C2_NonIntegerRecovered ==
    /\ (consumed # <<>> /\ ~PyInt(Last(consumed)).ok) =>
          /\ exception # "ValueError"
          /\ \/ pc = "AwaitingSelection"
             \/ pc = "Crashed" /\ exception = "EOFError"
    /\ \A k \in 1..Len(consumed) : ~PyInt(consumed[k]).ok => exception # "ValueError"
    /\ (pc = "Resolved" /\ consumed = << <<"a", "b", "c">>, <<"9", "9">>, <<"2">> >>) =>
          /\ AfterMenu = <<InvalidChoice, InvalidChoice>>
          /\ selected_city_coordinates = CITIES[2].coordinates

-----------------------------------------------------------------------------
(* C3 *)

\* C3: once the response status is not 200, the message with the status
\* code is the last thing printed, the process has exited, and nothing else
\* has happened or can happen: no extractor has run, no table was built or
\* printed, no blank or summary line was printed, no input was read after
\* the request, there was one request, and no step is possible.
C3_FetchFailureTerminates ==
    (Responded /\ response.status_code # 200) =>
        /\ pc = "FetchFailed"
        /\ Exited
        /\ AfterSelection =
              <<TextLine("Zapros ne vypolnen s kodom sostoyaniya "
                            \o ToString(response.status_code) \o "...")>>
        /\ OnlyInvalidChoices(SubSeq(AfterMenu, 1, Cardinality(Rejected)))
        /\ \A k \in 1..Len(stdout) : stdout[k].kind # "table"
        /\ ~Fetched
        /\ columns = <<>>
        /\ table = Unbound
        /\ \A k \in 1..Len(events) : events[k] \notin Extractors \cup RenderEvents
        /\ Last(events) = "print_status"
        /\ events[Len(events) - 1] = "http_get"
        /\ Len(requests) = 1
        /\ ~ENABLED Next

C3_Witness ==
    /\ pc = "FetchFailed"
    /\ response.status_code = 503
    /\ Len(consumed) > 1

-----------------------------------------------------------------------------
(* C4 *)

\* C4: when the status is not 200 the process ends with a failure exit
\* status, unlike the status 0 of the exit after a successful render.
C4_FailureExitStatus ==
    /\ pc = "FetchFailed" => (Exited /\ process.status # 0)
    /\ pc = "Done" => (Exited /\ process.status = 0)

-----------------------------------------------------------------------------
(* C5 *)

\* C5: at most one GET is ever issued; none while a selection is awaited or
\* before one is accepted; a run that accepted a selection and ended issued
\* exactly one; and the GET carries the latitude and longitude of the city
\* the accepted line selects.
C5_OneFetch ==
    /\ Len(requests) <= 1
    /\ pc \in {"Start", "AwaitingSelection"} => requests = <<>>
    /\ ~Accepted => requests = <<>>
    /\ (Accepted /\ Exited) => Len(requests) = 1
    /\ requests # <<>> =>
          /\ Accepted
          /\ selection.value = PyInt(Last(consumed)).value
          /\ \E i \in 1..Count :
                /\ (selection.value - i) % Count = 0
                /\ selected_city_coordinates = CITIES[i].coordinates
                /\ requests[1].latitude = CITIES[i].coordinates.latitude
                /\ requests[1].longitude = CITIES[i].coordinates.longitude

C5_Witness ==
    /\ pc = "Done"
    /\ Len(requests) = 1
    /\ Len(consumed) > 1
    /\ requests[1] = [latitude |-> 55755864, longitude |-> 37617698]

-----------------------------------------------------------------------------
(* C6 *)

\* C6: the menu is printed before any line is read, the GET is issued
\* before any extractor runs, and every extractor (the four hourly ones and
\* the current-conditions summary) runs before anything of the result is
\* printed.
C6_PipelineOrder ==
    \A i \in 1..Len(events) :
        /\ events[i] = "input" => \E j \in 1..(i - 1) : events[j] = "print_menu"
        /\ events[i] \in Extractors =>
              /\ \E j \in 1..(i - 1) : events[j] = "http_get"
              /\ \A j \in 1..(i - 1) : events[j] \notin RenderEvents

-----------------------------------------------------------------------------
(* C7 *)

\* C7: with a malformed document nothing is printed after the menu and the
\* error lines of the selection loop (no blank line, no summary line, no
\* table), and the run can only end in the fatal error.
C7_MalformedPrintsNothing ==
    (Fetched /\ ~WellFormed(weather_data)) =>
        /\ AfterSelection = <<>>
        /\ Exited => pc = "Crashed"

-----------------------------------------------------------------------------
(* C8 *)

HourlyFieldOf(extractor) ==
    CASE extractor = "get_horly_time" -> "time"
      [] extractor = "get_hourly_temperature_2m" -> "temperature_2m"
      [] extractor = "get_hourly_relative_humidity_2m" -> "relative_humidity_2m"
      [] extractor = "get_hourly_apparent_temperature" -> "apparent_temperature"

\* C8: on a well-formed document every hourly extractor that has run
\* returned as many strings as its hourly array has values, in the same
\* order: the time-only form of the timestamp for the time extractor, and
\* for the three value extractors str(value), one blank and the unit stored
\* under the extractor's own field name.
C8_ExtractorColumns ==
    (Fetched /\ WellFormed(weather_data)) =>
        \A c \in 1..Len(columns) :
            LET field  == HourlyFieldOf(columns[c].extractor)
                values == weather_data.hourly[field]
                column == columns[c].column
            IN  /\ Len(column) = Len(values)
                /\ Len(column) = Len(weather_data.hourly.time)
                /\ \A i \in 1..Len(values) :
                      column[i] =
                          IF field = "time"
                          THEN unix_time_to_human_readable(values[i], TRUE)
                          ELSE PyStr(values[i]) \o " " \o weather_data.hourly_units[field]

C8_Witness ==
    /\ Fetched
    /\ WellFormed(weather_data)
    /\ Len(weather_data.hourly.time) >= 2
    /\ {columns[c].extractor : c \in 1..Len(columns)} =
          {"get_horly_time", "get_hourly_temperature_2m",
           "get_hourly_relative_humidity_2m", "get_hourly_apparent_temperature"}
    /\ columns[2].column[2] = "-2.5 degC"
    /\ columns[1].column[2] = "04:00"

-----------------------------------------------------------------------------
(* C9 *)

\* C9: after a run on a well-formed document of n samples has ended, what
\* follows the menu and the selection loop is a blank line, the summary
\* line "(Den|Noch) <date and time> <zone>", and a table whose columns are
\* time, temperature, relative humidity, apparent temperature and whose
\* row i holds, for i = 1..n, the formatted i-th sample of each.
C9_RenderedOutput ==
    (pc = "Done" /\ WellFormed(weather_data)) =>
        LET h == weather_data.hourly
            u == weather_data.hourly_units
            n == Len(h.time)
        IN  /\ Len(AfterSelection) = 3
            /\ AfterSelection[1] = TextLine("")
            /\ AfterSelection[2] =
                  TextLine("(" \o (IF weather_data.current.is_day = 0 THEN "Noch" ELSE "Den")
                               \o ") "
                               \o unix_time_to_human_readable(weather_data.current.time, FALSE)
                               \o " " \o weather_data.timezone_abbreviation)
            /\ AfterSelection[3].kind = "table"
            /\ AfterSelection[3].field_names =
                  <<"Vremya", "Temperatura", "Otnositelnaya vlazhnost",
                    "Kazhushchayasya temperatura">>
            /\ Len(AfterSelection[3].rows) = n
            /\ \A i \in 1..n :
                  AfterSelection[3].rows[i] =
                      << unix_time_to_human_readable(h.time[i], TRUE),
                         PyStr(h.temperature_2m[i]) \o " " \o u.temperature_2m,
                         PyStr(h.relative_humidity_2m[i]) \o " " \o u.relative_humidity_2m,
                         PyStr(h.apparent_temperature[i]) \o " " \o u.apparent_temperature >>

C9_Witness ==
    /\ pc = "Done"
    /\ WellFormed(weather_data)
    /\ Len(weather_data.hourly.time) >= 2
    /\ Len(consumed) > 1
    /\ Last(stdout).kind = "table"
    /\ Last(stdout).rows[1] = <<"03:00", "10.0 degC", "50 %", "0.5 degC">>
    /\ stdout[Len(stdout) - 1].text = "(Den) 01.01.1970 03:00:59 MSK"

-----------------------------------------------------------------------------
(* C10 *)

\* the menu was printed once, and every rejected line has cost one line of
\* input and one error line
OneErrorLinePerRejection ==
    pc # "Start" =>
        /\ SubSeq(stdout, 1, Len(Menu)) = Menu
        /\ \A k \in (Len(Menu) + 1)..Len(stdout) : stdout[k] \notin {Menu[m] : m \in 1..Len(Menu)}
        /\ Len(AfterMenu) >= Cardinality(Rejected)
        /\ OnlyInvalidChoices(SubSeq(AfterMenu, 1, Cardinality(Rejected)))
        /\ \A k \in (Cardinality(Rejected) + 1)..Len(AfterMenu) : AfterMenu[k] # InvalidChoice
        /\ Accepted => Cardinality(Rejected) = Len(consumed) - 1

\* no line is read once the request has been issued
NoInputAfterFetch ==
    \A i \in 1..Len(events) :
        events[i] = "http_get" => \A j \in (i + 1)..Len(events) : events[j] # "input"

\* C10, as stated: every rejected line costs one line of input and one error
\* line and the menu is not printed again; after the accepted selection the
\* loop is never entered again; and a run whose selection was accepted and
\* whose HTTP call returned ends in Done or in the fetch-failure state.
C10_TwoTerminalStates ==
    /\ OneErrorLinePerRejection
    /\ NoInputAfterFetch
    /\ Accepted => pc # "AwaitingSelection"
    /\ (Exited /\ Accepted /\ Responded) => pc \in {"Done", "FetchFailed"}

\* how a run whose selection was accepted and whose HTTP call returned ends
ThreeTerminalStates ==
    (Exited /\ Accepted /\ Responded) =>
        \/ /\ pc = "Done"
           /\ response.status_code = 200
           /\ Last(stdout).kind = "table"
        \/ /\ pc = "FetchFailed"
           /\ response.status_code # 200
        \/ /\ pc = "Crashed"
           /\ response.status_code = 200
           /\ \/ ~Fetched /\ exception = "JSONDecodeError"
              \/ Fetched /\ ~WellFormed(weather_data)
                         /\ exception \in {"KeyError", "ValueError"}

\* C10, amended: as stated, but with a third terminal state after the
\* accepted selection: the uncaught exception of a response body that is
\* not JSON or of a malformed document. Once a selection is accepted, the
\* run ends.
C10_ThreeTerminalStates ==
    /\ [](/\ OneErrorLinePerRejection
          /\ NoInputAfterFetch
          /\ (Accepted => pc # "AwaitingSelection")
          /\ ThreeTerminalStates)
    /\ [][~Exited /\ (Accepted => Accepted')]_vars
    /\ (Accepted ~> Exited)

C10_Witness ==
    /\ pc = "Crashed"
    /\ exception = "KeyError"
    /\ Len(consumed) = 3
    /\ Cardinality(Rejected) = 2

=============================================================================
